---------------------------- MODULE Spec2Model ----------------------------
(***************************************************************************)
(* A model of src/dashboard.py: the first-half play-by-play aggregator,    *)
(* the team-name matcher, the market-total extractor, the betting          *)
(* evaluator and the evaluation cycle build_dashboard_rows.                *)
(*                                                                         *)
(* Conventions.                                                            *)
(*  - Python strings are TLA+ strings; Len, SubSeq and \o act on them.     *)
(*  - An optional value (a dict key that may be missing, a None) is a      *)
(*    sequence of length 0 (missing / None) or 1 (<<v>>).                  *)
(*  - A text field read as `d.get(k) or ""` is a string, "" standing for   *)
(*    missing, null and empty alike (the code does not tell them apart).   *)
(*  - Floats that are multiples of 0.5 (the pace integer, the totals, the  *)
(*    derived line) are kept in half units: a name ending in _x2 holds     *)
(*    twice the Python value.                                              *)
(***************************************************************************)
EXTENDS Integers, Sequences, FiniteSets, TLC

VARIABLES
    \* compute_first_half_stats_from_pbp
    pbp_pc,             \* "idle" | "loop" | "done"
    seen,               \* the plays of period 1 walked so far, in order
    acc,                \* fga, fta, turnovers, last_home_score, last_visitor_score
    stats,              \* the returned dict (None before the return)
    \* evaluate_bet
    eval_in,            \* its four arguments
    eval_out,           \* the returned dict (None before the call)
    \* extract_full_game_total_with_book
    ext_in,             \* the market event
    ext_out,            \* the returned pair (None before the call)
    \* find_matching_odds_event
    match_in,           \* odds_games, ncaa_home_names, ncaa_away_names
    match_out,          \* the returned event or None, wrapped (None before the call)
    \* teams_match_name
    name_in,            \* ncaa_name, odds_name
    name_out,           \* a, b and the returned bool (None before the call)
    \* build_dashboard_rows
    cy_pc,              \* "idle" | "scoreboard" | "odds" | "games" | "returned" | "raised"
    world,              \* what the two mandatory fetches answer in this cycle
    games,              \* scoreboard.get("games", [])
    odds_games,         \* fetch_odds_games_today()
    gi,                 \* position of `for gwrap in games` (1-based)
    rows,               \* the rows appended so far
    ret,                \* the returned (rows, error) (None before the return)
    cy_exc              \* the exception that left the cycle (None if none did)

pbpVars == <<pbp_pc, seen, acc, stats>>
evalVars == <<eval_in, eval_out>>

extVars == <<ext_in, ext_out>>

matchVars == <<match_in, match_out>>

nameVars == <<name_in, name_out>>

cycleVars == <<cy_pc, world, games, odds_games, gi, rows, ret, cy_exc>>

vars == <<pbpVars, evalVars, extVars, matchVars, nameVars, cycleVars>>

None == <<>>
Some(v) == <<v>>

-----------------------------------------------------------------------------
(* Python string primitives *)

UPPER == "ABCDEFGHIJKLMNOPQRSTUVWXYZ"
LOWER == "abcdefghijklmnopqrstuvwxyz"

CharAt(s, i) == SubSeq(s, i, i)

LowerChar(c) ==
    IF \E i \in 1..Len(UPPER) : CharAt(UPPER, i) = c
    THEN CharAt(LOWER, CHOOSE i \in 1..Len(UPPER) : CharAt(UPPER, i) = c)
    ELSE c

UpperChar(c) ==
    IF \E i \in 1..Len(LOWER) : CharAt(LOWER, i) = c
    THEN CharAt(UPPER, CHOOSE i \in 1..Len(LOWER) : CharAt(LOWER, i) = c)
    ELSE c

RECURSIVE Upper(_)
Upper(s) == IF s = "" THEN "" ELSE UpperChar(CharAt(s, 1)) \o Upper(SubSeq(s, 2, Len(s)))

RECURSIVE Lower(_)
Lower(s) == IF s = "" THEN "" ELSE LowerChar(CharAt(s, 1)) \o Lower(SubSeq(s, 2, Len(s)))

\* `k in s`
Contains(s, k) ==
    \E i \in 1..(Len(s) - Len(k) + 1) : SubSeq(s, i, i + Len(k) - 1) = k

IsSpace(c) == c \in {" ", "\t", "\n"}

RECURSIVE LStrip(_)
LStrip(s) == IF s # "" /\ IsSpace(CharAt(s, 1)) THEN LStrip(SubSeq(s, 2, Len(s))) ELSE s

RECURSIVE RStrip(_)
RStrip(s) == IF s # "" /\ IsSpace(CharAt(s, Len(s))) THEN RStrip(SubSeq(s, 1, Len(s) - 1)) ELSE s

Strip(s) == RStrip(LStrip(s))

StartsWith(s, p) == Len(s) >= Len(p) /\ SubSeq(s, 1, Len(p)) = p

\* any(k in s for k in list)
AnyIn(list, s) == \E i \in DOMAIN list : Contains(s, list[i])

-----------------------------------------------------------------------------
(* Configuration *)

BOOKMAKER_PRIORITY ==
    << "draftkings", "fanduel", "betmgm", "betonlineag", "pointsbetus",
       "caesars", "betrivers", "unibet_us", "wynnbet", "barstool" >>

SHOT_KEYWORDS ==
    << "jumper", "jump shot", "jumpshot", "layup", "dunk", "hook shot",
       "hookshot", "tip-in", "tip in", "putback", "2 pointer", "two pointer",
       "2pt", "three pointer", "3 pointer", "3pt", "three-point" >>

TURNOVER_POSITIVE_PHRASES ==
    << "turnover by", "turnover on", "shot clock turnover", "team turnover",
       "lost ball turnover", "bad pass turnover", "traveling turnover",
       "offensive foul turnover", "backcourt turnover", "five second turnover",
       "three second turnover" >>

TURNOVER_IGNORE_PHRASES ==
    << "points off turnovers", "turnover margin", "points via turnovers" >>

-----------------------------------------------------------------------------
(* compute_first_half_stats_from_pbp: the branches of the loop body *)

\* desc = play.get("eventDescription") or ""; if not desc: visitorText or homeText or ""
PlayDesc(play) ==
    IF play.eventDescription # "" THEN play.eventDescription
    ELSE IF play.visitorText # "" THEN play.visitorText
    ELSE play.homeText

\* a get() whose default is 0 instead of the running value
GetOr_ResetToZero(field, default) == IF field = None THEN 0 ELSE field[1]

\* play.get(key, default)
GetOr(field, default) == IF field = None THEN default ELSE field[1]

\* the free-throw branch: what one description adds to fta
FtaAdd(desc_lower) ==
    IF Contains(desc_lower, "free throw")
    THEN IF Contains(desc_lower, "both free throws") THEN 2
         ELSE IF Contains(desc_lower, "all three free throws")
                 \/ Contains(desc_lower, "all 3 free throws") THEN 3
         ELSE IF Contains(desc_lower, "three free throws")
                 \/ Contains(desc_lower, "3 free throws") THEN 3
         ELSE IF Contains(desc_lower, "two free throws")
                 \/ Contains(desc_lower, "2 free throws") THEN 2
         ELSE 1
    ELSE 0

\* the field-goal branch without its free-throw guard
FgaAdd_NoFreeThrowGuard(desc_lower) ==
    IF AnyIn(SHOT_KEYWORDS, desc_lower) THEN 1 ELSE 0

\* the field-goal branch
FgaAdd(desc_lower) ==
    LET has_shot_word == AnyIn(SHOT_KEYWORDS, desc_lower)
    IN  IF has_shot_word /\ ~Contains(desc_lower, "free throw") THEN 1 ELSE 0

\* the turnover branch; its `continue` is the last statement of the body
TurnoverAdd(desc_lower) ==
    IF Contains(desc_lower, "turnover")
    THEN IF AnyIn(TURNOVER_IGNORE_PHRASES, desc_lower) THEN 0
         ELSE LET positive_match == AnyIn(TURNOVER_POSITIVE_PHRASES, desc_lower)
                  starts_with_turnover == StartsWith(Strip(desc_lower), "turnover")
              IN  IF positive_match \/ starts_with_turnover THEN 1 ELSE 0
    ELSE 0

-----------------------------------------------------------------------------
(* The plays the aggregator is run on *)

MaxPlays == 3

Descriptions ==
    { "", "Rebound", "Free Throw MADE", "makes both free throws",
      "both of two free throws", "makes all three free throws",
      "all 3 free throws", "three free throws", "3 Free Throws",
      "Two Free Throws", "2 free throws", "Layup MISSED", "3PT Jumper",
      "layup, free throw", "Turnover by A", " Turnover", "Bad Pass Turnover",
      "forces a turnover", "points off turnovers: turnover by A",
      "Turnover by A on dunk", "turnover on free throw" }

Scores == {0, 2, 5}

Play(d, v, h, hs, vs) ==
    [eventDescription |-> d, visitorText |-> v, homeText |-> h,
     homeScore |-> hs, visitorScore |-> vs]

Plays ==
    { Play(d, "", "", None, None) : d \in Descriptions }
    \cup { Play("", "Dunk", "", None, None), Play("", "", "Free Throw", None, None),
           Play("", "Turnover", "Layup", None, None) }
    \cup { Play("Rebound", "", "", Some(h), None) : h \in Scores }
    \cup { Play("Rebound", "", "", None, Some(v)) : v \in Scores }
    \cup { Play("Layup", "", "", Some(2), Some(5)) }

AccInit ==
    [fga |-> 0, fta |-> 0, turnovers |-> 0,
     last_home_score |-> 0, last_visitor_score |-> 0]

\* the three branches of the loop body, tabulated once per play (@@ makes the
\* table explicit, so that it is computed once)
PlayAdds ==
    [play \in Plays |->
        LET desc_lower == Lower(PlayDesc(play))
        IN  [fta |-> FtaAdd(desc_lower), fga |-> FgaAdd(desc_lower),
             turnovers |-> TurnoverAdd(desc_lower)]] @@ <<>>

PlayStep(a, play) ==
    [fga |-> a.fga + PlayAdds[play].fga,
         fta |-> a.fta + PlayAdds[play].fta,
         turnovers |-> a.turnovers + PlayAdds[play].turnovers,
         last_home_score |-> GetOr(play.homeScore, a.last_home_score),
         last_visitor_score |-> GetOr(play.visitorScore, a.last_visitor_score)]

\* the returned dict with fta halved by floor division (fta // 2)
StatsOf_FloorDiv(a) ==
    [fga |-> a.fga, fta |-> a.fta, turnovers |-> a.turnovers,
     home_pts_1h |-> a.last_home_score, away_pts_1h |-> a.last_visitor_score,
     integer_x2 |-> 2 * a.fga + 2 * (a.fta \div 2) + 2 * a.turnovers]

\* integer_value = fga + (fta / 2.0) + turnovers, and the returned dict
StatsOf(a) ==
    [fga |-> a.fga, fta |-> a.fta, turnovers |-> a.turnovers,
     home_pts_1h |-> a.last_home_score, away_pts_1h |-> a.last_visitor_score,
     integer_x2 |-> 2 * a.fga + a.fta + 2 * a.turnovers]

-----------------------------------------------------------------------------
(* SpecPbp: the aggregator walking one period-1 play list *)

PbpIdle == pbp_pc = "idle" /\ seen = <<>> /\ acc = AccInit /\ stats = None
EvalIdle == eval_in = None /\ eval_out = None
ExtIdle == ext_in = None /\ ext_out = None
MatchIdle == match_in = None /\ match_out = None
NameIdle == name_in = None /\ name_out = None
CycleIdle ==
    /\ cy_pc = "idle" /\ world = None /\ games = <<>> /\ odds_games = <<>>
    /\ gi = 1 /\ rows = <<>> /\ ret = None /\ cy_exc = None

PbpInit ==
    /\ pbp_pc = "loop"
    /\ seen = <<>>
    /\ acc = AccInit
    /\ stats = None
    /\ EvalIdle /\ ExtIdle /\ MatchIdle /\ CycleIdle /\ NameIdle

\* one iteration of `for play in plays`
PbpStep ==
    /\ pbp_pc = "loop"
    /\ Len(seen) < MaxPlays
    /\ \E play \in Plays :
          /\ seen' = Append(seen, play)
          /\ acc' = PlayStep(acc, play)
    /\ UNCHANGED <<pbp_pc, stats, evalVars, extVars, matchVars, nameVars, cycleVars>>

\* the list is exhausted: compute integer_value and return the dict
PbpReturn ==
    /\ pbp_pc = "loop"
    /\ stats' = Some(StatsOf(acc))
    /\ pbp_pc' = "done"
    /\ UNCHANGED <<seen, acc, evalVars, extVars, matchVars, nameVars, cycleVars>>

PbpNext == PbpStep \/ PbpReturn

SpecPbp == PbpInit /\ [][PbpNext]_vars

-----------------------------------------------------------------------------
(* Reference counts for the aggregator, stated per description and summed *)

Range(f) == { f[i] : i \in DOMAIN f }

Has(d, phrase) == Contains(d, phrase)

RefFta(d) ==
    IF ~Has(d, "free throw") THEN 0
    ELSE IF Has(d, "both free throws") THEN 2
    ELSE IF \E w \in {"all three", "all 3", "three", "3"} : Has(d, w \o " free throws") THEN 3
    ELSE IF \E w \in {"two", "2"} : Has(d, w \o " free throws") THEN 2
    ELSE 1

RefFga(d) ==
    IF (\E k \in Range(SHOT_KEYWORDS) : Has(d, k)) /\ ~Has(d, "free throw") THEN 1 ELSE 0

RefTurnover(d) ==
    IF /\ Has(d, "turnover")
       /\ \A bad \in Range(TURNOVER_IGNORE_PHRASES) : ~Has(d, bad)
       /\ \/ \E p \in Range(TURNOVER_POSITIVE_PHRASES) : Has(d, p)
          \/ StartsWith(Strip(d), "turnover")
    THEN 1 ELSE 0

RefTable ==
    [play \in Plays |->
        LET d == Lower(PlayDesc(play))
        IN  [fta |-> RefFta(d), fga |-> RefFga(d), turnovers |-> RefTurnover(d)]] @@ <<>>

RECURSIVE RefSum(_, _)
RefSum(s, counter) ==
    IF s = <<>> THEN 0
    ELSE RefSum(SubSeq(s, 1, Len(s) - 1), counter) + RefTable[s[Len(s)]][counter]

\* the score carried by the last play that has the field, 0 if none has it
RefLastScore(s, field) ==
    LET I == { i \in 1..Len(s) : s[i][field] # None }
    IN  IF I = {} THEN 0
        ELSE s[CHOOSE i \in I : \A j \in I : j <= i][field][1]

\* C8: during the walk and in the returned dict, fta, fga and turnovers equal
\* the reference sums over the plays walked, and the returned integer is
\* fga + fta/2 + turnovers exactly (in half units: 2*fga + fta + 2*turnovers).
C8_CountsEqualReferenceFold ==
    /\ acc.fta = RefSum(seen, "fta")
    /\ acc.fga = RefSum(seen, "fga")
    /\ acc.turnovers = RefSum(seen, "turnovers")
    /\ stats # None =>
          /\ stats[1].fta = RefSum(seen, "fta")
          /\ stats[1].fga = RefSum(seen, "fga")
          /\ stats[1].turnovers = RefSum(seen, "turnovers")
          /\ stats[1].integer_x2 =
                2 * RefSum(seen, "fga") + RefSum(seen, "fta") + 2 * RefSum(seen, "turnovers")

\* a returned dict over three plays with an odd fta, a field goal and a turnover
C8_Witness ==
    /\ stats # None
    /\ Len(seen) = 3
    /\ stats[1].fta = 3 /\ stats[1].fga = 1 /\ stats[1].turnovers = 1
    /\ stats[1].integer_x2 = 7

\* C9 as stated: one play changes at most one of the three counters.
C9_AtMostOneCounterPerPlay ==
    [][Cardinality({ c \in {"fta", "fga", "turnovers"} : acc'[c] # acc[c] }) <= 1]_vars

\* C9 amended: one play never changes both fta and fga; the turnover counter
\* is checked independently of them and moves by at most one.
C9_FreeThrowExcludesFieldGoal ==
    [][/\ ~(acc'.fta # acc.fta /\ acc'.fga # acc.fga)
       /\ acc'.turnovers - acc.turnovers \in {0, 1}]_vars

\* a description with a shot keyword and "free throw" was counted as a free throw only
C9_Witness ==
    /\ Len(seen) = 1
    /\ AnyIn(SHOT_KEYWORDS, Lower(PlayDesc(seen[1])))
    /\ Contains(Lower(PlayDesc(seen[1])), "free throw")
    /\ acc.fta = 1 /\ acc.fga = 0

\* C10: the running scores start at 0 and are carried forward: each equals the
\* score of the last play walked that has the field (0 if none), and the
\* returned first-half scores are these.
C10_ScoresCarriedForward ==
    /\ acc.last_home_score = RefLastScore(seen, "homeScore")
    /\ acc.last_visitor_score = RefLastScore(seen, "visitorScore")
    /\ stats # None =>
          /\ stats[1].home_pts_1h = RefLastScore(seen, "homeScore")
          /\ stats[1].away_pts_1h = RefLastScore(seen, "visitorScore")

\* a play with a home score, then plays without one, and the score is still reported
C10_Witness ==
    /\ stats # None
    /\ Len(seen) = 3
    /\ seen[1].homeScore = Some(5)
    /\ seen[2].homeScore = None /\ seen[3].homeScore = None
    /\ seen[3].visitorScore = Some(2)
    /\ stats[1].home_pts_1h = 5 /\ stats[1].away_pts_1h = 2

-----------------------------------------------------------------------------
(* evaluate_bet *)

Abs(x) == IF x < 0 THEN 0 - x ELSE x

\* the rule as the docstring words it: line difference < 11, score difference >= 6
evaluate_bet_AsDocstring(integer_x2, home_pts_1h, away_pts_1h, derived_2h_line_x2) ==
    LET diff_line_x2 == Abs(integer_x2 - derived_2h_line_x2)
        score_diff == Abs(home_pts_1h - away_pts_1h)
    IN  [qualifies |-> (diff_line_x2 < 2 * 11) /\ (score_diff >= 6),
         diff_line_x2 |-> diff_line_x2,
         score_diff |-> score_diff,
         lean |-> IF integer_x2 > derived_2h_line_x2 THEN "OVER"
                  ELSE IF integer_x2 < derived_2h_line_x2 THEN "UNDER"
                  ELSE "NEUTRAL"]

evaluate_bet(integer_x2, home_pts_1h, away_pts_1h, derived_2h_line_x2) ==
    LET diff_line_x2 == Abs(integer_x2 - derived_2h_line_x2)
        score_diff == Abs(home_pts_1h - away_pts_1h)
        qualifies == (diff_line_x2 >= 2 * 6) /\ (score_diff < 11)
        lean == IF integer_x2 > derived_2h_line_x2 THEN "OVER"
                ELSE IF integer_x2 < derived_2h_line_x2 THEN "UNDER"
                ELSE "NEUTRAL"
    IN  [qualifies |-> qualifies, diff_line_x2 |-> diff_line_x2,
         score_diff |-> score_diff, lean |-> lean]

MaxPts == 12
MaxHalfUnits == 14

EvalInit ==
    /\ PbpIdle /\ ExtIdle /\ MatchIdle /\ CycleIdle /\ NameIdle
    /\ eval_out = None
    /\ \E i \in 0..MaxHalfUnits, l \in (0 - MaxHalfUnits)..MaxHalfUnits,
          h \in 0..MaxPts, a \in 0..MaxPts :
          eval_in = Some([integer_x2 |-> i, home_pts_1h |-> h, away_pts_1h |-> a,
                          derived_2h_line_x2 |-> l])

EvalCall ==
    /\ eval_in # None
    /\ eval_out = None
    /\ eval_out' = Some(evaluate_bet(eval_in[1].integer_x2, eval_in[1].home_pts_1h,
                                     eval_in[1].away_pts_1h, eval_in[1].derived_2h_line_x2))
    /\ UNCHANGED <<eval_in, pbpVars, extVars, matchVars, nameVars, cycleVars>>

EvalNext == EvalCall

SpecEval == EvalInit /\ [][EvalNext]_vars

-----------------------------------------------------------------------------
(* extract_full_game_total_with_book *)

\* bm_by_key = {bm.get("key"): bm for bm in bookmakers}: a later entry replaces
\* an earlier one with the same key
BmByKey(bookmakers) ==
    [k \in { bookmakers[i].key : i \in DOMAIN bookmakers } |->
        bookmakers[CHOOSE i \in DOMAIN bookmakers :
                      /\ bookmakers[i].key = k
                      /\ \A j \in DOMAIN bookmakers : bookmakers[j].key = k => j <= i]]

\* the loop over one bookmaker's markets, from market j on
RECURSIVE TotalsPoint(_, _)
TotalsPoint(markets, j) ==
    IF j > Len(markets) THEN None
    ELSE IF /\ markets[j].key = "totals"
            /\ markets[j].outcomes # <<>>
            /\ markets[j].outcomes[1].point # None
         THEN markets[j].outcomes[1].point
         ELSE TotalsPoint(markets, j + 1)

NoTotal == [full_game_total_x2 |-> None, full_game_book |-> None]

\* the loop over BOOKMAKER_PRIORITY, from entry i on
RECURSIVE ExtractFrom(_, _)
ExtractFrom(bm_by_key, i) ==
    IF i > Len(BOOKMAKER_PRIORITY) THEN NoTotal
    ELSE LET key == BOOKMAKER_PRIORITY[i]
         IN  IF key \notin DOMAIN bm_by_key THEN ExtractFrom(bm_by_key, i + 1)
             ELSE LET bm == bm_by_key[key]
                      point == TotalsPoint(bm.markets, 1)
                  IN  IF point # None
                      THEN [full_game_total_x2 |-> point,
                            full_game_book |-> Some(IF bm.title # "" THEN bm.title ELSE key)]
                      ELSE ExtractFrom(bm_by_key, i + 1)

\* the first listed bookmaker of the event that is on the priority list and
\* has a totals point, whatever its priority
RECURSIVE FirstListedFrom(_, _)
FirstListedFrom(bookmakers, i) ==
    IF i > Len(bookmakers) THEN NoTotal
    ELSE LET bm == bookmakers[i]
             point == TotalsPoint(bm.markets, 1)
         IN  IF (\E r \in DOMAIN BOOKMAKER_PRIORITY : BOOKMAKER_PRIORITY[r] = bm.key)
                /\ point # None
             THEN [full_game_total_x2 |-> point,
                   full_game_book |-> Some(IF bm.title # "" THEN bm.title ELSE bm.key)]
             ELSE FirstListedFrom(bookmakers, i + 1)

extract_full_game_total_with_book_FirstListed(event) ==
    FirstListedFrom(event.bookmakers, 1)

extract_full_game_total_with_book(event) ==
    ExtractFrom(BmByKey(event.bookmakers), 1)

(* The bookmaker quotes an event is built from; totals are in half units *)

Totals(p) == [key |-> "totals", outcomes |-> <<[point |-> Some(p)], [point |-> Some(p)]>>]
H2H == [key |-> "h2h", outcomes |-> <<[point |-> None], [point |-> None]>>]
Quote(k, t, m) == [key |-> k, title |-> t, markets |-> m]

BookQuotes ==
    { Quote("draftkings", "DraftKings", <<Totals(290)>>),
      Quote("draftkings", "DraftKings", <<H2H>>),
      Quote("draftkings", "DraftKings", <<[key |-> "totals", outcomes |-> <<[point |-> None]>>]>>),
      Quote("fanduel", "FanDuel", <<H2H, Totals(289)>>),
      Quote("fanduel", "FanDuel", <<[key |-> "totals", outcomes |-> <<>>], Totals(291)>>),
      Quote("betmgm", "", <<Totals(288)>>),
      Quote("barstool", "Barstool", <<Totals(0)>>),
      Quote("bovada", "Bovada", <<Totals(300)>>) }

MaxBooks == 3

\* the events whose bookmakers carry distinct keys, as the odds feed lists them
MarketQuoteLists ==
    { b \in UNION { [1..n -> BookQuotes] : n \in 0..MaxBooks } :
        \A i, j \in DOMAIN b : b[i].key = b[j].key => i = j }

ExtInit ==
    /\ PbpIdle /\ EvalIdle /\ MatchIdle /\ CycleIdle /\ NameIdle
    /\ ext_out = None
    /\ \E b \in MarketQuoteLists : ext_in = Some([bookmakers |-> b])

ExtCall ==
    /\ ext_in # None
    /\ ext_out = None
    /\ ext_out' = Some(extract_full_game_total_with_book(ext_in[1]))
    /\ UNCHANGED <<ext_in, pbpVars, evalVars, matchVars, nameVars, cycleVars>>

ExtNext == ExtCall

SpecExtract == ExtInit /\ [][ExtNext]_vars

(* Reference: the candidates of an event, independent of their order *)

RefPoint(bm) ==
    LET J == { j \in DOMAIN bm.markets :
                 /\ bm.markets[j].key = "totals"
                 /\ Len(bm.markets[j].outcomes) > 0
                 /\ bm.markets[j].outcomes[1].point # None }
    IN  IF J = {} THEN None
        ELSE bm.markets[CHOOSE j \in J : \A k \in J : j <= k].outcomes[1].point

Rank(key) == CHOOSE r \in DOMAIN BOOKMAKER_PRIORITY : BOOKMAKER_PRIORITY[r] = key

Candidates(bookmakers) ==
    { bm \in Range(bookmakers) :
        bm.key \in Range(BOOKMAKER_PRIORITY) /\ RefPoint(bm) # None }

Reorderings(b) ==
    { [i \in DOMAIN b |-> b[p[i]]] : p \in Permutations(DOMAIN b) }

-----------------------------------------------------------------------------
(* normalize_team_name and teams_match_name *)

DIGITS == "0123456789"

InString(c, chars) == \E i \in 1..Len(chars) : CharAt(chars, i) = c

\* \w of the regular expressions
IsWordChar(c) == InString(c, LOWER) \/ InString(c, UPPER) \/ InString(c, DIGITS) \/ c = "_"

\* s.replace(old, new) for a one-character old
RECURSIVE ReplaceChar(_, _, _)
ReplaceChar(s, old, new) ==
    IF s = "" THEN ""
    ELSE (IF CharAt(s, 1) = old THEN new ELSE CharAt(s, 1))
         \o ReplaceChar(SubSeq(s, 2, Len(s)), old, new)

\* re.sub(r"[^a-z0-9\s]", " ", s)
RECURSIVE StripPunctuation(_)
StripPunctuation(s) ==
    IF s = "" THEN ""
    ELSE LET c == CharAt(s, 1)
         IN  (IF InString(c, LOWER) \/ InString(c, DIGITS) \/ IsSpace(c) THEN c ELSE " ")
             \o StripPunctuation(SubSeq(s, 2, Len(s)))

\* \b between positions i-1 and i of s
Boundary(s, i) ==
    LET before == i > 1 /\ i - 1 <= Len(s) /\ IsWordChar(CharAt(s, i - 1))
        after == i >= 1 /\ i <= Len(s) /\ IsWordChar(CharAt(s, i))
    IN  before # after

\* the pattern \b<word>\b matches at position i; a "." of the word is the
\* regular expression's wildcard (any character but a newline)
WordMatchAt(s, word, i) ==
    /\ i + Len(word) - 1 <= Len(s)
    /\ \A k \in 1..Len(word) :
          IF CharAt(word, k) = "." THEN CharAt(s, i + k - 1) # "\n"
          ELSE CharAt(s, i + k - 1) = CharAt(word, k)
    /\ Boundary(s, i)
    /\ Boundary(s, i + Len(word))

\* re.sub(rf"\b{word}\b", " ", s), scanning from position i
RECURSIVE SubWordFrom(_, _, _)
SubWordFrom(s, word, i) ==
    IF i > Len(s) THEN ""
    ELSE IF WordMatchAt(s, word, i) THEN " " \o SubWordFrom(s, word, i + Len(word))
    ELSE CharAt(s, i) \o SubWordFrom(s, word, i + 1)

NOISE_WORDS == << "university", "college", "state", "st", "st.", "the", "of" >>

\* for word in [...]: s = re.sub(...), from word w on
RECURSIVE DropNoise(_, _)
DropNoise(s, w) ==
    IF w > Len(NOISE_WORDS) THEN s
    ELSE DropNoise(SubWordFrom(s, NOISE_WORDS[w], 1), w + 1)

\* re.sub(r"\s+", " ", s)
RECURSIVE CollapseSpaces(_)
CollapseSpaces(s) ==
    IF s = "" THEN ""
    ELSE IF IsSpace(CharAt(s, 1))
         THEN " " \o CollapseSpaces(LStrip(s))
         ELSE CharAt(s, 1) \o CollapseSpaces(SubSeq(s, 2, Len(s)))

normalize_team_name(name) ==
    IF name = "" THEN ""
    ELSE Strip(CollapseSpaces(DropNoise(
             StripPunctuation(ReplaceChar(Lower(name), "&", "and")), 1)))

\* s.split(), as a set: s is normalized (single spaces, no leading or trailing one)
RECURSIVE SplitSet(_)
SplitSet(s) ==
    IF s = "" THEN {}
    ELSE IF ~Contains(s, " ") THEN {s}
    ELSE LET i == CHOOSE k \in 1..Len(s) :
                     CharAt(s, k) = " " /\ \A m \in 1..(k - 1) : CharAt(s, m) # " "
         IN  {SubSeq(s, 1, i - 1)} \cup SplitSet(SubSeq(s, i + 1, Len(s)))

teams_match_name(ncaa_name, odds_name) ==
    LET a == normalize_team_name(ncaa_name)
        b == normalize_team_name(odds_name)
    IN  IF a = "" \/ b = "" THEN FALSE
        ELSE IF Contains(b, a) \/ Contains(a, b) THEN TRUE
        ELSE Cardinality(SplitSet(a) \cap SplitSet(b)) >= 2

-----------------------------------------------------------------------------
(* The scoreboard names and the market events the matcher is run on *)

Names(short, full, char6, seo) == <<short, full, char6, seo>>

DukeNames == Names(Some("Duke"), Some("Duke University"), Some("DUKE"), Some("duke"))
UncNames  == Names(Some("North Carolina"), Some("University of North Carolina"),
                   Some("UNC"), Some("north-carolina"))
NcStNames == Names(Some("NC State"), None, Some("NCST"), Some("north-carolina-st"))
KansasNames == Names(Some("Kansas"), Some("University of Kansas"), Some(""), None)
HomeDefaultNames == Names(Some("Home"), None, None, None)
AwayDefaultNames == Names(Some("Away"), None, None, None)

NcaaNameLists ==
    { DukeNames, UncNames, NcStNames, KansasNames, HomeDefaultNames, AwayDefaultNames }

MarketEvent(home, away, commence, bookmakers) ==
    [home_team |-> home, away_team |-> away, commence_time |-> commence,
     bookmakers |-> bookmakers]

DK(p) == Quote("draftkings", "DraftKings", <<Totals(p)>>)
FD(p) == Quote("fanduel", "FanDuel", <<H2H, Totals(p)>>)

\* commence_time is "today" (an ISO time on the local date), "other" (another
\* date), "malformed" (not an ISO time) or "" (missing)
EvDukeUnc == MarketEvent("Duke Blue Devils", "North Carolina Tar Heels", "today",
                         <<FD(289), DK(290)>>)
EvUncDuke == MarketEvent("North Carolina Tar Heels", "Duke Blue Devils", "today",
                         <<Quote("bovada", "Bovada", <<Totals(300)>>)>>)
EvNcStDuke == MarketEvent("NC State Wolfpack", "Duke Blue Devils", "today",
                          <<Quote("barstool", "Barstool", <<Totals(0)>>)>>)
EvKansas == MarketEvent("Kansas Jayhawks", "", "today", <<DK(280)>>)
EvDukeUncOther == MarketEvent("Duke Blue Devils", "North Carolina Tar Heels", "other",
                              <<DK(270)>>)

MarketEvents == { EvDukeUnc, EvUncDuke, EvNcStDuke, EvKansas, EvDukeUncOther }

NcaaStrings ==
    UNION { { n[k][1] : k \in { j \in DOMAIN n : n[j] # None } } : n \in NcaaNameLists }

OddsStrings ==
    { e.home_team : e \in MarketEvents } \cup { e.away_team : e \in MarketEvents }

\* teams_match_name, tabulated once per pair of names
TeamsMatch ==
    [p \in NcaaStrings \X OddsStrings |-> teams_match_name(p[1], p[2])] @@ <<>>

-----------------------------------------------------------------------------
(* find_matching_odds_event *)

\* any(teams_match_name(n, odds_team) for n in names if n)
AnyNameMatches(names, odds_team) ==
    \E k \in DOMAIN names :
        /\ names[k] # None
        /\ names[k][1] # ""
        /\ TeamsMatch[<<names[k][1], odds_team>>]

NormalAlignment(event, ncaa_home_names, ncaa_away_names) ==
    LET home_ok == AnyNameMatches(ncaa_home_names, event.home_team)
        away_ok == AnyNameMatches(ncaa_away_names, event.away_team)
    IN  home_ok /\ away_ok

SwappedAlignment(event, ncaa_home_names, ncaa_away_names) ==
    LET home_ok_swapped == AnyNameMatches(ncaa_home_names, event.away_team)
        away_ok_swapped == AnyNameMatches(ncaa_away_names, event.home_team)
    IN  home_ok_swapped /\ away_ok_swapped

\* the loop over odds_games (odds_list here), from event i on
RECURSIVE FindFrom(_, _, _, _)
FindFrom(odds_list, ncaa_home_names, ncaa_away_names, i) ==
    IF i > Len(odds_list) THEN None
    ELSE LET event == odds_list[i]
         IN  IF NormalAlignment(event, ncaa_home_names, ncaa_away_names) THEN Some(event)
             ELSE IF SwappedAlignment(event, ncaa_home_names, ncaa_away_names) THEN Some(event)
             ELSE FindFrom(odds_list, ncaa_home_names, ncaa_away_names, i + 1)

\* a matcher that prefers the better fit: any event in normal alignment
\* before any event in swapped alignment
find_matching_odds_event_PreferNormal(odds_list, ncaa_home_names, ncaa_away_names) ==
    LET N == { i \in DOMAIN odds_list :
                 NormalAlignment(odds_list[i], ncaa_home_names, ncaa_away_names) }
        S == { i \in DOMAIN odds_list :
                 SwappedAlignment(odds_list[i], ncaa_home_names, ncaa_away_names) }
    IN  IF N # {} THEN Some(odds_list[CHOOSE i \in N : \A j \in N : i <= j])
        ELSE IF S # {} THEN Some(odds_list[CHOOSE i \in S : \A j \in S : i <= j])
        ELSE None

find_matching_odds_event(odds_list, ncaa_home_names, ncaa_away_names) ==
    FindFrom(odds_list, ncaa_home_names, ncaa_away_names, 1)

MaxEvents == 3

EventLists == UNION { [1..n -> MarketEvents] : n \in 0..MaxEvents }

MatchInit ==
    /\ PbpIdle /\ EvalIdle /\ ExtIdle /\ CycleIdle /\ NameIdle
    /\ match_out = None
    /\ \E g \in EventLists, H \in NcaaNameLists, A \in NcaaNameLists :
          match_in = Some([odds_games |-> g, ncaa_home_names |-> H, ncaa_away_names |-> A])

MatchCall ==
    /\ match_in # None
    /\ match_out = None
    /\ match_out' = Some(find_matching_odds_event(match_in[1].odds_games,
                                                  match_in[1].ncaa_home_names,
                                                  match_in[1].ncaa_away_names))
    /\ UNCHANGED <<match_in, pbpVars, evalVars, extVars, nameVars, cycleVars>>

MatchNext == MatchCall

SpecMatch == MatchInit /\ [][MatchNext]_vars

(* Reference: the alignments of the claim, over non-empty name variants *)

NonEmpty(names) == { names[k][1] : k \in { j \in DOMAIN names : names[j] # None } } \ {""}

RefAligned(event, H, A) ==
    \/ /\ \E h \in NonEmpty(H) : TeamsMatch[<<h, event.home_team>>]
       /\ \E a \in NonEmpty(A) : TeamsMatch[<<a, event.away_team>>]
    \/ /\ \E h \in NonEmpty(H) : TeamsMatch[<<h, event.away_team>>]
       /\ \E a \in NonEmpty(A) : TeamsMatch[<<a, event.home_team>>]

\* C7: the result is the first event, in list order, that satisfies the normal
\* or the swapped alignment: no earlier event satisfies either, a later event
\* is never preferred, and the result is None exactly when no event does.
C7_FirstAlignedEventWins ==
    match_out # None =>
        LET g == match_in[1].odds_games
            H == match_in[1].ncaa_home_names
            A == match_in[1].ncaa_away_names
            S == { i \in DOMAIN g : RefAligned(g[i], H, A) }
        IN  /\ (match_out[1] = None) <=> (S = {})
            /\ S # {} =>
                  \E i \in S : (\A j \in S : i <= j) /\ match_out[1] = Some(g[i])

\* the first event fits only in swapped alignment, a later one fits in normal
\* alignment, and the first is returned
C7_Witness ==
    /\ match_out # None
    /\ match_in[1].ncaa_home_names = DukeNames
    /\ match_in[1].ncaa_away_names = UncNames
    /\ Len(match_in[1].odds_games) >= 2
    /\ match_in[1].odds_games[1] = EvUncDuke
    /\ match_in[1].odds_games[2] = EvDukeUnc
    /\ match_out[1] = Some(EvUncDuke)

-----------------------------------------------------------------------------
(* HTTP responses and the fetch helpers *)

\* the outcome of a call: an exception raised, or a value returned
Raised(e) == [raised |-> TRUE, exc |-> e]
Returned(v) == [raised |-> FALSE, val |-> v]

\* A response is what one URL answers:
\*   [kind |-> "network_error"]   requests.get raises
\*   [kind |-> "http_error"]      raise_for_status raises
\*   [kind |-> "unparsable"]      status 2xx, resp.json() raises
\*   [kind |-> "json", body |-> b] status 2xx, resp.json() returns b
NetworkError == [kind |-> "network_error"]
HttpError == [kind |-> "http_error"]
Unparsable == [kind |-> "unparsable"]
Json(b) == [kind |-> "json", body |-> b]

\* a JSON value that is neither an object nor an array
JsonScalar == [type |-> "scalar"]
JsonObject(fields) == [type |-> "object", fields |-> fields]
JsonArray(items) == [type |-> "array", items |-> items]

\* requests.get(url, timeout=10); resp.raise_for_status()
HttpGet(resp) ==
    IF resp.kind = "network_error" THEN Raised("ConnectionError")
    ELSE IF resp.kind = "http_error" THEN Raised("HTTPError")
    ELSE Returned(resp)

\* resp.json()
RespJson(resp) ==
    IF resp.kind = "unparsable" THEN Raised("JSONDecodeError") ELSE Returned(resp.body)

get_ncaab_scoreboard_for_today(resp) ==
    LET r == HttpGet(resp)
    IN  IF r.raised THEN r ELSE RespJson(resp)

\* the events whose commence_time is an ISO time on today's local date
RECURSIVE TodayOnly(_)
TodayOnly(data) ==
    IF data = <<>> THEN <<>>
    ELSE (IF Head(data).commence_time = "today" THEN <<Head(data)>> ELSE <<>>)
         \o TodayOnly(Tail(data))

\* a fetch that answers an unparsable body with no events
fetch_odds_games_today_SwallowParseError(resp) ==
    LET r == HttpGet(resp)
    IN  IF r.raised THEN r
        ELSE IF RespJson(resp).raised THEN Returned(<<>>)
        ELSE IF RespJson(resp).val.type # "array" THEN Returned(<<>>)
        ELSE Returned(TodayOnly(RespJson(resp).val.items))

fetch_odds_games_today(resp) ==
    LET r == HttpGet(resp)
    IN  IF r.raised THEN r
        ELSE LET data == RespJson(resp)
             IN  IF data.raised THEN data
                 ELSE IF data.val.type # "array" THEN Returned(<<>>)
                 ELSE Returned(TodayOnly(data.val.items))

get_game_play_by_play(game_url_path, resp) ==
    IF game_url_path = None \/ game_url_path = Some("") THEN Returned(None)
    ELSE IF HttpGet(resp).raised THEN Returned(None)
    ELSE LET data == RespJson(resp)
         IN  IF data.raised THEN data
             ELSE IF data.val.type # "object" THEN Returned(None)
             ELSE Returned(Some(data.val))

-----------------------------------------------------------------------------
(* compute_first_half_stats_from_pbp, as called by the cycle *)

\* a period entry: a JSON object, or something else (null, a number, ...)
Period(number, plays) == [isObject |-> TRUE, periodNumber |-> number, playbyplayStats |-> plays]
NotAnObject == [isObject |-> FALSE]

\* the search for the period with str(periodNumber) == "1", from entry i on;
\* periodNumber is kept as the string str() makes of it
RECURSIVE FirstHalfFrom(_, _)
FirstHalfFrom(periods, i) ==
    IF i > Len(periods) THEN Returned(None)
    ELSE IF ~periods[i].isObject THEN Raised("AttributeError")
    ELSE IF periods[i].periodNumber = "1" THEN Returned(Some(periods[i]))
    ELSE FirstHalfFrom(periods, i + 1)

\* the loop over the plays, from play i on
RECURSIVE WalkPlays(_, _, _)
WalkPlays(plays, a, i) ==
    IF i > Len(plays) THEN a ELSE WalkPlays(plays, PlayStep(a, plays[i]), i + 1)

compute_first_half_stats_from_pbp(pbp_data) ==
    LET periods == pbp_data.fields.periods
    IN  IF periods = <<>> THEN Returned(None)
        ELSE LET first_half == FirstHalfFrom(periods, 1)
             IN  IF first_half.raised THEN first_half
                 ELSE IF first_half.val = None THEN Returned(None)
                 ELSE Returned(Some(StatsOf(
                          WalkPlays(first_half.val[1].playbyplayStats, AccInit, 1))))

-----------------------------------------------------------------------------
(* build_dashboard_rows: one pass of the loop over the games *)

RECURSIVE IntStr(_)
IntStr(n) ==
    IF n < 10 THEN CharAt(DIGITS, n + 1)
    ELSE IntStr(n \div 10) \o CharAt(DIGITS, (n % 10) + 1)

\* names.get("short") or default
ShortOr(names, default) ==
    IF names[1] = None \/ names[1] = Some("") THEN default ELSE names[1][1]

\* the period filter: the game is shown (not skipped by `continue`)
ShowsPeriod(period) ==
    LET period_clean == Strip(ReplaceChar(period, ".", ""))
        is_first_half == /\ Contains(period_clean, "1")
                         /\ ~Contains(period_clean, "FINAL")
                         /\ ~Contains(period_clean, "OT")
                         /\ ~Contains(period_clean, "HALF")
        is_halftime == Contains(period_clean, "HALF")
    IN  is_first_half \/ is_halftime

\* the derived line computed when the total is truthy (a total of 0 taken as absent)
DerivedLine_TruthyTotal(stats_1h, full_game_total_x2) ==
    IF stats_1h # None /\ full_game_total_x2 # None /\ full_game_total_x2 # Some(0)
    THEN Some(full_game_total_x2[1] - 2 * (stats_1h[1].home_pts_1h + stats_1h[1].away_pts_1h))
    ELSE None

\* if stats_1h and full_game_total is not None: total - (home + away); a stats
\* dict is never empty, so `stats_1h` is false only for None
DerivedLine(stats_1h, full_game_total_x2) ==
    IF stats_1h # None /\ full_game_total_x2 # None
    THEN Some(full_game_total_x2[1] - 2 * (stats_1h[1].home_pts_1h + stats_1h[1].away_pts_1h))
    ELSE None

EvalResult(stats_1h, derived_2h_line_x2) ==
    IF stats_1h # None /\ derived_2h_line_x2 # None
    THEN Some(evaluate_bet(stats_1h[1].integer_x2, stats_1h[1].home_pts_1h,
                           stats_1h[1].away_pts_1h, derived_2h_line_x2[1]))
    ELSE None

\* x[field] if x else None
FieldOf(x, field) == IF x # None THEN Some(x[1][field]) ELSE None

\* odds_event = find_matching_odds_event(...); the total and book taken from it
TotalOf(odds_event) ==
    IF odds_event # None THEN extract_full_game_total_with_book(odds_event[1]) ELSE NoTotal

\* rows.append({...}): the row of a shown game
RowDict(away_short, home_short, state, period, stats_1h, total, derived_2h_line_x2, eval_result) ==
    [matchup |-> away_short \o " @ " \o home_short,
     state |-> state,
     period |-> period,
     integer_x2 |-> FieldOf(stats_1h, "integer_x2"),
     fga |-> FieldOf(stats_1h, "fga"),
     fta |-> FieldOf(stats_1h, "fta"),
     to |-> FieldOf(stats_1h, "turnovers"),
     half_score |->
         IF stats_1h # None
         THEN Some(IntStr(stats_1h[1].away_pts_1h) \o "-" \o IntStr(stats_1h[1].home_pts_1h))
         ELSE None,
     full_game_total_x2 |-> total.full_game_total_x2,
     full_game_book |-> total.full_game_book,
     derived_2h_line_x2 |-> derived_2h_line_x2,
     qualifies |-> FieldOf(eval_result, "qualifies"),
     lean |-> FieldOf(eval_result, "lean"),
     diff_line_x2 |-> FieldOf(eval_result, "diff_line_x2"),
     score_diff |-> FieldOf(eval_result, "score_diff")]

\* the loop body from the evaluation on, the derived line known
RowEvaluated(away_short, home_short, state, period, stats_1h, total, derived_2h_line_x2) ==
    RowDict(away_short, home_short, state, period, stats_1h, total, derived_2h_line_x2,
            EvalResult(stats_1h, derived_2h_line_x2))

\* the loop body from the derived line on, the stats and the total known
RowDerived(away_short, home_short, state, period, stats_1h, total) ==
    RowEvaluated(away_short, home_short, state, period, stats_1h, total,
                 DerivedLine(stats_1h, total.full_game_total_x2))

\* the loop body from the odds matching on, the outcome of the stats computation known
RowMatched(g, the_odds_games, away_short, home_short, state, period, computed) ==
    IF computed.raised THEN computed
    ELSE Returned(Some(RowDerived(
             away_short, home_short, state, period, computed.val,
             TotalOf(find_matching_odds_event(
                 the_odds_games,
                 <<Some(home_short), g.home[2], g.home[3], g.home[4]>>,
                 <<Some(away_short), g.away[2], g.away[3], g.away[4]>>)))))

\* stats_1h = compute_first_half_stats_from_pbp(pbp_data) if pbp_data else None
StatsFor(pbp_data) ==
    IF pbp_data # None /\ pbp_data[1].fields.nonempty
    THEN compute_first_half_stats_from_pbp(pbp_data[1])
    ELSE Returned(None)

\* the loop body from the stats computation on, the outcome of the play-by-play fetch known
RowFetched(g, the_odds_games, away_short, home_short, state, period, pbp) ==
    IF pbp.raised THEN pbp
    ELSE RowMatched(g, the_odds_games, away_short, home_short, state, period,
                    StatsFor(pbp.val))

\* the loop body from the period filter on, the names and labels known
RowShown(g, the_odds_games, away_short, home_short, state, period) ==
    IF ~ShowsPeriod(period) THEN Returned(None)
    ELSE RowFetched(g, the_odds_games, away_short, home_short, state, period,
                    IF GetOr(g.hasPbp, TRUE)
                    THEN get_game_play_by_play(g.url, g.pbp_resp)
                    ELSE Returned(None))

\* the loop body for one game: an exception, a skip (None) or the row appended
GameRow(g, the_odds_games) ==
    RowShown(g, the_odds_games, ShortOr(g.away, "Away"), ShortOr(g.home, "Home"),
             Upper(GetOr(g.gameState, "")), Upper(GetOr(g.currentPeriod, "")))

-----------------------------------------------------------------------------
(* The scoreboard games, play-by-play answers and odds answers of a cycle *)

P(d) == Play(d, "", "", None, None)

\* two single free throws, one "both", two shots, one turnover; score 5-2
ScenarioPlays ==
    << P("Free Throw MADE"), P("Free Throw MADE"), P("makes both free throws"),
       Play("Layup", "", "", Some(2), Some(5)), P("3PT Jumper"), P("Turnover by A") >>

PbpObject(periods) == JsonObject([nonempty |-> TRUE, periods |-> periods])

PbpFull == PbpObject(<<Period("1", ScenarioPlays), Period("2", <<P("Layup MISSED")>>)>>)
PbpNoPlays == PbpObject(<<Period("1", <<>>)>>)
PbpSecondHalfOnly == PbpObject(<<Period("2", <<P("Layup MISSED")>>)>>)
PbpNoPeriods == PbpObject(<<>>)
PbpEmptyObject == JsonObject([nonempty |-> FALSE, periods |-> <<>>])
PbpMalformed == PbpObject(<<NotAnObject, Period("1", ScenarioPlays)>>)

PbpResponses ==
    { NetworkError, HttpError, Unparsable, Json(JsonScalar), Json(JsonArray(<<>>)),
      Json(PbpFull), Json(PbpNoPlays), Json(PbpSecondHalfOnly), Json(PbpNoPeriods),
      Json(PbpEmptyObject), Json(PbpMalformed) }

PeriodLabels ==
    { Some("1st"), Some("1ST HALF"), Some("Halftime"), Some("End 1st."), Some("2nd"),
      Some("FINAL"), Some("FINAL (1OT)"), Some("1OT"), Some("1 O.T."), Some("OT HALF"),
      None }

Game(home, away, period, url, hasPbp, resp) ==
    [home |-> home, away |-> away, gameState |-> Some("live"), currentPeriod |-> period,
     url |-> url, hasPbp |-> hasPbp, pbp_resp |-> resp]

NoNames == Names(None, None, None, None)

GameCatalog ==
    { Game(DukeNames, UncNames, l, Some("/game/1"), None, Json(PbpFull)) : l \in PeriodLabels }
    \cup { Game(DukeNames, UncNames, Some("1st"), Some("/game/1"), None, r) : r \in PbpResponses }
    \cup { Game(NcStNames, DukeNames, Some("HALF"), Some("/game/2"), Some(TRUE), Json(PbpNoPlays)),
           Game(NoNames, NoNames, Some("1st"), None, None, Json(PbpFull)),
           Game(DukeNames, UncNames, Some("1st"), Some("/game/1"), Some(FALSE), Unparsable) }

MaxGames == 2

GameLists == UNION { [1..n -> GameCatalog] : n \in 0..MaxGames }

\* a failed mandatory fetch, a body of the wrong top-level type, or the games
ScoreboardResponses ==
    { NetworkError, HttpError, Unparsable, Json(JsonScalar), Json(JsonArray(<<>>)) }
    \cup { Json(JsonObject([games |-> gs])) : gs \in GameLists }

OddsResponses ==
    { NetworkError, HttpError, Unparsable,
      Json(JsonObject([message |-> "quota"])),
      Json(JsonArray(<<>>)),
      Json(JsonArray(<<EvDukeUncOther, EvDukeUnc>>)),
      Json(JsonArray(<<EvUncDuke>>)),
      Json(JsonArray(<<EvNcStDuke, EvDukeUnc>>)) }

-----------------------------------------------------------------------------
(* Spec: one evaluation cycle, build_dashboard_rows *)

Init ==
    /\ PbpIdle /\ EvalIdle /\ ExtIdle /\ MatchIdle /\ NameIdle
    /\ cy_pc = "scoreboard"
    /\ \E sb \in ScoreboardResponses, od \in OddsResponses :
          world = [sb_resp |-> sb, odds_resp |-> od]
    /\ games = <<>>
    /\ odds_games = <<>>
    /\ gi = 1
    /\ rows = <<>>
    /\ ret = None
    /\ cy_exc = None

\* try: scoreboard = get_ncaab_scoreboard_for_today(); games = scoreboard.get("games", [])
FetchScoreboard ==
    /\ cy_pc = "scoreboard"
    /\ LET scoreboard == get_ncaab_scoreboard_for_today(world.sb_resp)
           e == IF scoreboard.raised THEN Some(scoreboard.exc)
                ELSE IF scoreboard.val.type # "object" THEN Some("AttributeError")
                ELSE None
       IN  IF e # None
           THEN /\ ret' = Some([rows |-> <<>>,
                                error |-> Some("Error loading NCAA scoreboard: " \o e[1])])
                /\ cy_pc' = "returned"
                /\ UNCHANGED games
           ELSE /\ games' = scoreboard.val.fields.games
                /\ cy_pc' = "odds"
                /\ UNCHANGED ret
    /\ UNCHANGED <<world, odds_games, gi, rows, cy_exc, pbpVars, evalVars, extVars, matchVars, nameVars>>

\* try: odds_games = fetch_odds_games_today()
FetchOdds ==
    /\ cy_pc = "odds"
    /\ LET fetched == fetch_odds_games_today(world.odds_resp)
       IN  IF fetched.raised
           THEN /\ ret' = Some([rows |-> <<>>,
                                error |-> Some("Error loading Odds API data: " \o fetched.exc)])
                /\ cy_pc' = "returned"
                /\ UNCHANGED odds_games
           ELSE /\ odds_games' = fetched.val
                /\ cy_pc' = "games"
                /\ UNCHANGED ret
    /\ UNCHANGED <<world, games, gi, rows, cy_exc, pbpVars, evalVars, extVars, matchVars, nameVars>>

\* the loop state after one game whose body ended as r
AfterGame(r) ==
    IF r.raised
    THEN /\ cy_pc' = "raised"
         /\ cy_exc' = Some(r.exc)
         /\ UNCHANGED <<gi, rows>>
    ELSE /\ gi' = gi + 1
         /\ rows' = IF r.val = None THEN rows ELSE Append(rows, r.val[1])
         /\ UNCHANGED <<cy_pc, cy_exc>>

\* one iteration of `for gwrap in games`; an exception leaves the function
ProcessGame ==
    /\ cy_pc = "games"
    /\ gi <= Len(games)
    /\ AfterGame(GameRow(games[gi], odds_games))
    /\ UNCHANGED <<world, games, odds_games, ret, pbpVars, evalVars, extVars, matchVars, nameVars>>

\* return rows, None
ReturnRows ==
    /\ cy_pc = "games"
    /\ gi > Len(games)
    /\ ret' = Some([rows |-> rows, error |-> None])
    /\ cy_pc' = "returned"
    /\ UNCHANGED <<world, games, odds_games, gi, rows, cy_exc, pbpVars, evalVars, extVars, matchVars, nameVars>>

Next == FetchScoreboard \/ FetchOdds \/ ProcessGame \/ ReturnRows

Spec == Init /\ [][Next]_vars

-----------------------------------------------------------------------------
(* Properties of the cycle *)

\* the indices, in order, of the first n games that pass the period filter
RECURSIVE ShownUpTo(_, _)
ShownUpTo(gs, n) ==
    IF n = 0 THEN <<>>
    ELSE ShownUpTo(gs, n - 1)
         \o (IF ShowsPeriod(Upper(GetOr(gs[n].currentPeriod, ""))) THEN <<n>> ELSE <<>>)

\* the play-by-play answers that are a failure: transport error, HTTP error
\* status, a body that cannot be parsed, malformed data, no period-1 section
PbpFailures ==
    { NetworkError, HttpError, Unparsable, Json(JsonScalar), Json(JsonArray(<<>>)),
      Json(PbpSecondHalfOnly), Json(PbpNoPeriods), Json(PbpEmptyObject), Json(PbpMalformed) }

\* the play-by-play of game g is asked for and fails
PbpFailed(g) == GetOr(g.hasPbp, TRUE) /\ g.pbp_resp \in PbpFailures

\* the fields of a row that come from the play-by-play are all undefined
PbpFieldsUndefined(row) ==
    /\ row.integer_x2 = None /\ row.fga = None /\ row.fta = None /\ row.to = None
    /\ row.half_score = None

\* the fields of a row that come from the scoreboard are those of game g
ScoreboardFieldsOf(row, g) ==
    /\ row.matchup = ShortOr(g.away, "Away") \o " @ " \o ShortOr(g.home, "Home")
    /\ row.period = Upper(GetOr(g.currentPeriod, ""))

\* row k of shown (the indices of the shown games) is the row of its game, and
\* is blank in its play-by-play fields if that game's play-by-play failed
RowStandsFor(row, g) ==
    /\ ScoreboardFieldsOf(row, g)
    /\ PbpFailed(g) => PbpFieldsUndefined(row)

RowsStandFor(shown) ==
    /\ Len(rows) = Len(shown)
    /\ \A k \in DOMAIN rows : k \in DOMAIN shown /\ RowStandsFor(rows[k], games[shown[k]])

\* C1: in a cycle whose scoreboard and odds fetches succeeded, a failure of one
\* game's play-by-play never raises out of the cycle: the game's row is emitted
\* with its scoreboard fields and with undefined play-by-play fields, and every
\* game that passes the period filter has its row once the loop has passed it.
C1_PbpFailureNeverAbortsCycle ==
    /\ cy_pc # "raised"
    /\ cy_pc = "games" => RowsStandFor(ShownUpTo(games, gi - 1))
    /\ (cy_pc = "returned" /\ ret[1].error = None) =>
           /\ ret[1].rows = rows
           /\ RowsStandFor(ShownUpTo(games, Len(games)))

\* the scoreboard fetch fails as the code has it: requests.get or
\* raise_for_status raises, resp.json() raises, or the body has no .get
ScoreboardFailed ==
    \/ world.sb_resp.kind # "json"
    \/ world.sb_resp.body.type # "object"

\* the odds fetch fails as the code has it: requests.get or raise_for_status
\* raises, or resp.json() raises
OddsFailed == world.odds_resp.kind # "json"

\* the odds fetch fails as the claim has it: a body whose top level is not the
\* list of events counts as a failure too
OddsFailedOrNotAList ==
    \/ world.odds_resp.kind # "json"
    \/ world.odds_resp.body.type # "array"

\* what a cycle with the mandatory fetches failed (or not) may do and return
CycleOutcome(failed, scoreboard_failed) ==
    /\ failed => /\ cy_pc \in {"scoreboard", "odds", "returned"}
                 /\ rows = <<>>
    /\ cy_pc = "returned" =>
          IF failed
          THEN /\ ret[1].rows = <<>>
               /\ ret[1].error # None
               /\ IF scoreboard_failed
                  THEN StartsWith(ret[1].error[1], "Error loading NCAA scoreboard: ")
                  ELSE StartsWith(ret[1].error[1], "Error loading Odds API data: ")
          ELSE ret[1].error = None

\* C2 as first stated: if the scoreboard fetch or the odds fetch fails (network
\* error or malformed top-level JSON body, a non-list odds body included) the
\* cycle is aborted and returns zero rows and one error message; a cycle in
\* which neither fails returns no error.
C2_MalformedBodyAbortsCycle ==
    CycleOutcome(ScoreboardFailed \/ OddsFailedOrNotAList, ScoreboardFailed)

\* C2: if the scoreboard fetch fails (network error, HTTP error status,
\* unparsable body, or a body that is not an object) or the odds fetch fails
\* (network error, HTTP error status, unparsable body) the cycle is aborted
\* and returns zero rows and one error message; an odds body that parses but
\* is not a list is an empty list of events, and a cycle in which neither
\* fetch fails returns no error.
C2_FailedFetchAbortsCycle ==
    /\ CycleOutcome(ScoreboardFailed \/ OddsFailed, ScoreboardFailed)
    /\ (cy_pc \in {"games", "raised"} /\ world.odds_resp.body.type # "array") =>
           odds_games = <<>>

\* the scoreboard lists a game, the odds body cannot be parsed, and the cycle
\* has returned no rows and the odds error
C2_Witness ==
    /\ cy_pc = "returned"
    /\ games # <<>>
    /\ world.odds_resp = Unparsable
    /\ ret[1].rows = <<>>
    /\ ret[1].error = Some("Error loading Odds API data: JSONDecodeError")

\* row.half_score is "a-h" and the derived line is the total less (h + a)
DerivedFromHalfScore(row) ==
    \E h \in Scores, a \in Scores :
        /\ row.half_score = Some(IntStr(a) \o "-" \o IntStr(h))
        /\ row.derived_2h_line_x2 = Some(row.full_game_total_x2[1] - 2 * (h + a))

\* the fields of one row are defined together as the claim has it
RowFieldsConsistent(row) ==
    /\ row.fga # None <=> row.integer_x2 # None
    /\ row.fta # None <=> row.integer_x2 # None
    /\ row.to # None <=> row.integer_x2 # None
    /\ row.half_score # None <=> row.integer_x2 # None
    /\ row.derived_2h_line_x2 # None <=>
           (row.integer_x2 # None /\ row.full_game_total_x2 # None)
    /\ row.derived_2h_line_x2 # None => DerivedFromHalfScore(row)
    /\ row.qualifies # None <=> row.derived_2h_line_x2 # None
    /\ row.lean # None <=> row.derived_2h_line_x2 # None
    /\ row.diff_line_x2 # None <=> row.derived_2h_line_x2 # None
    /\ row.score_diff # None <=> row.derived_2h_line_x2 # None

\* C3: in every emitted row the derived second-half line is defined exactly
\* when the first-half stats and the full-game total are both defined, and is
\* then total - (home + away); qualifies, lean, diff_line and score_diff are
\* defined exactly when the derived line is; an absent input leaves them
\* undefined, and every shown game the loop has passed has its row, a total of
\* 0 or an integer of 0 included.
C3_DerivedFieldsDefinedTogether ==
    /\ \A k \in DOMAIN rows : RowFieldsConsistent(rows[k])
    /\ Len(rows) = Len(ShownUpTo(games, gi - 1))

\* two rows: one with total 0 and integer 0, whose derived line is 0 and which
\* is evaluated; one without stats but with a total, whose derived line and
\* evaluation are undefined
C3_Witness ==
    /\ Len(rows) = 2
    /\ rows[1].full_game_total_x2 = Some(0)
    /\ rows[1].integer_x2 = Some(0)
    /\ rows[1].derived_2h_line_x2 = Some(0)
    /\ rows[1].qualifies = Some(FALSE)
    /\ rows[1].lean = Some("NEUTRAL")
    /\ rows[2].integer_x2 = None
    /\ rows[2].full_game_total_x2 # None
    /\ rows[2].derived_2h_line_x2 = None
    /\ rows[2].qualifies = None

\* C4: no row is emitted for a game whose period label contains "FINAL" or
\* "OT", whether or not the label also contains "1".
C4_FinalOrOtNeverShown ==
    \A k \in DOMAIN rows :
        /\ ~Contains(rows[k].period, "FINAL")
        /\ ~Contains(rows[k].period, "OT")

-----------------------------------------------------------------------------
(* SpecName: one call of teams_match_name *)

\* the words team names are made of: plain words, the noise words in several
\* spellings, words with punctuation, and short words that begin with "st"
Words ==
    << "Duke", "Blue", "Devils", "State", "St.", "University", "of", "The",
       "A&M", "Stl", "north-carolina-st", "1st" >>

MaxWords == 2

\* the names: up to MaxWords words, a single space between them
RECURSIVE JoinWords(_)
JoinWords(ws) ==
    IF ws = <<>> THEN ""
    ELSE IF Len(ws) = 1 THEN Words[ws[1]]
    ELSE Words[ws[1]] \o " " \o JoinWords(Tail(ws))

TeamNames ==
    { JoinWords(ws) : ws \in UNION { [1..n -> DOMAIN Words] : n \in 0..MaxWords } }

NameInit ==
    /\ PbpIdle /\ EvalIdle /\ ExtIdle /\ MatchIdle /\ CycleIdle
    /\ name_out = None
    /\ \E ncaa_name \in TeamNames, odds_name \in TeamNames :
          name_in = Some(<<ncaa_name, odds_name>>)

NameCall ==
    /\ name_in # None
    /\ name_out = None
    /\ name_out' = Some([a |-> normalize_team_name(name_in[1][1]),
                         b |-> normalize_team_name(name_in[1][2]),
                         result |-> teams_match_name(name_in[1][1], name_in[1][2])])
    /\ UNCHANGED <<name_in, pbpVars, evalVars, extVars, matchVars, cycleVars>>

NameNext == NameCall

SpecName == NameInit /\ [][NameNext]_vars

(* Reference: the rule on tokens *)

\* the tokens of s from character i on, cur being the token under way: the
\* lowercased name is cut at every character outside a-z0-9, "&" reading "and"
RECURSIVE RefTokensFrom(_, _, _)
RefTokensFrom(s, i, cur) ==
    IF i > Len(s) THEN (IF cur = "" THEN <<>> ELSE <<cur>>)
    ELSE LET c == LowerChar(CharAt(s, i))
         IN  IF c = "&" THEN RefTokensFrom(s, i + 1, cur \o "and")
             ELSE IF InString(c, LOWER) \/ InString(c, DIGITS)
                  THEN RefTokensFrom(s, i + 1, cur \o c)
             ELSE (IF cur = "" THEN <<>> ELSE <<cur>>) \o RefTokensFrom(s, i + 1, "")

RefNoise == { "university", "college", "state", "st", "the", "of" }

\* the tokens of the name that are not noise words, in order
RefKept(name) == SelectSeq(RefTokensFrom(name, 1, ""), LAMBDA t : t \notin RefNoise)

RECURSIVE RefJoin(_)
RefJoin(ts) ==
    IF ts = <<>> THEN ""
    ELSE IF Len(ts) = 1 THEN ts[1]
    ELSE ts[1] \o " " \o RefJoin(Tail(ts))

RefTokenSet(ts) == { ts[k] : k \in DOMAIN ts }

\* no match if either is empty, a match if one is a substring of the other,
\* otherwise a match exactly when at least 2 tokens are shared
RefMatchOn(ta, tb) ==
    IF ta = <<>> \/ tb = <<>> THEN FALSE
    ELSE IF Contains(RefJoin(tb), RefJoin(ta)) \/ Contains(RefJoin(ta), RefJoin(tb)) THEN TRUE
    ELSE Cardinality(RefTokenSet(ta) \cap RefTokenSet(tb)) >= 2

RefMatch(x, y) == RefMatchOn(RefKept(x), RefKept(y))

\* C11: teams_match_name(a, b) equals the reference rule for every pair of
\* names (false if either normalized name is empty, true if one is a substring
\* of the other, otherwise true exactly when 2 or more tokens are shared, the
\* noise tokens being university, college, state, st, the, of); no normalized
\* name has a noise word as a token; and "Duke" matches "Duke Blue Devils".
C11_MatchEqualsReferenceRule ==
    name_out # None =>
        /\ name_out[1].result = RefMatch(name_in[1][1], name_in[1][2])
        /\ SplitSet(name_out[1].a) \cap RefNoise = {}
        /\ SplitSet(name_out[1].b) \cap RefNoise = {}
        /\ name_in[1] = <<"Duke", "Duke Blue Devils">> => name_out[1].result

=============================================================================
